---------------------------- MODULE Spec2Model ----------------------------
(***************************************************************************)
(* State-machine model of the vehicle command layer of MATE-2024:          *)
(*   src/src/mavlink/socket.py      MavlinkSocket     (connection manager) *)
(*   src/src/mavlink/controller.py  MavlinkController (command controller) *)
(*   src/src/mavlink/error.py       MavlinkError                           *)
(*                                                                         *)
(* One MavlinkSocket, at most one live MavlinkController built on it, one  *)
(* single-threaded caller.  pymavlink is the environment: a transport      *)
(* object (mavudp) per successful mavlink_connection, which learns the     *)
(* target ids from the heartbeats it receives, and a vehicle that arms or  *)
(* disarms when an arm/disarm datagram reaches it.                         *)
(***************************************************************************)
EXTENDS Integers, Sequences, FiniteSets, TLC

(* ------------------------------ bounds -------------------------------- *)
\* transports (mavudp objects) created by successful listen calls
MaxTransports == 2
\* wire messages transmitted in one behaviour
MaxSent == 2
\* the wall clock runs from 0 to MaxTime ticks
MaxTime == 1
\* clock ticks per second (time.time() is in seconds)
TicksPerSecond == 2

(* --------------------------- program values --------------------------- *)
\* Python's None (Optional[...] fields and returns); every real id, time
\* and transport handle of the model is >= 0
None == -1

\* constructor arguments of MavlinkSocket: a host name that needs a resolver
\* (a numeric host such as the default 0.0.0.0 behaves as this one does while
\* the resolver answers), the default port and a port above the legal range
Hostnames == {"rov.local"}
Ports == {14550, 65536}

\* (system id, component id) of the vehicles that can send a heartbeat
Senders == {<<1, 1>>, <<2, 1>>}

\* mavutil.mavlink command ids and flags used by the controller
MAV_CMD_COMPONENT_ARM_DISARM == 400
MAV_CMD_CONDITION_YAW == 115
MAV_CMD_DO_SET_SERVO == 183
MAV_CMD_DO_GIMBAL_MANAGER_PITCHYAW == 1000
MAV_MODE_FLAG_CUSTOM_MODE_ENABLED == 1

\* the vehicle-supplied mode-name -> mode-id mapping (master.mode_mapping())
ModeMapping == [STABILIZE |-> 0, MANUAL |-> 19]
\* mode names a caller passes to set_mode
ModeNames == {"STABILIZE", "NOPE"}

\* argument values the caller passes
Vects == {<<1, 2, 3>>}
YawArgs == {<<90, 10, 0, 1>>}
PitchArgs == {<<30, 5>>}
\* parameter lists handed to _send_long_command directly: 6, 7 and 8 long
ParamLists == {<<1, 2, 3, 4, 5, 6>>, <<1, 2, 3, 4, 5, 6, 7>>,
               <<1, 2, 3, 4, 5, 6, 7, 8>>}

(* ------------------------------- state -------------------------------- *)
VARIABLES
  hostname,        \* MavlinkSocket.hostname
  port,            \* MavlinkSocket.port
  listening,       \* MavlinkSocket.listening
  established,     \* MavlinkSocket.established
  cnx_start_time,  \* MavlinkSocket.cnx_start_time (None or a clock value)
  master,          \* MavlinkSocket.master (None or a transport handle)
  ctrl_master,     \* MavlinkController._master (None: no controller built)
  mav,             \* per transport: the ids pymavlink learnt from heartbeats
  ntransports,     \* transports created so far
  wire,            \* the wire message transmitted last (NoMsg: none yet)
  nsent,           \* number of wire messages transmitted so far
  vehArmed,        \* the vehicle's motors are armed
  now,             \* wall clock (time.time()), in ticks
  pc,              \* where the caller is: "idle" or inside a blocking wait
  last,            \* outcome of the caller's most recent call
  \* the diagnostic scripts (src/diagnostic)
  VS_USING_LINUX,          \* verify.py memo of verify_using_linux
  VS_INTERNET_CONNECTION,  \* verify.py memo of verify_internet_connection
  VS_PYTHON_VERSION,       \* verify.py memo of verify_python_installed
  VS_FFMPEG_INSTALLED,     \* verify.py memo of verify_ffmpeg_installed
  VS_APTGET_UPDATED,       \* setup.py memo of verify_aptget_updated
  VS_MEDIAMTX_INSTALLED,   \* setup.py memo of verify_mediamtx_installed
  platform,        \* sys.platform
  ffmpeg,          \* the ffmpeg executable is on the PATH
  mediamtx_path,   \* what is at mediamtx_path: nothing, a file, or a
                   \* directory given as the set of the files in it
  ran,             \* per verification: times its underlying check has run
  ret              \* the diagnostic function called last and its result

sockVars == <<hostname, port, listening, established, cnx_start_time, master>>
libVars  == <<mav, ntransports>>
envVars  == <<now>>
wireVars == <<wire, nsent, vehArmed>>
mavVars == <<hostname, port, listening, established, cnx_start_time, master,
             ctrl_master, mav, ntransports, wire, nsent, vehArmed, now, pc,
             last>>
memoVars == <<VS_USING_LINUX, VS_INTERNET_CONNECTION, VS_PYTHON_VERSION,
              VS_FFMPEG_INSTALLED, VS_APTGET_UPDATED, VS_MEDIAMTX_INSTALLED>>
diagVars == <<memoVars, platform, ffmpeg, mediamtx_path, ran, ret>>
vars == <<mavVars, diagVars>>

Transports == 1..MaxTransports

\* a mavudp object as mavutil.mavlink_connection returns it: no heartbeat
\* seen yet, target ids 0
NewTransport == [target_system |-> 0, target_component |-> 0]

\* the caller-visible outcome of a call: "ok", "waiting" (blocked inside the
\* call) or the error raised
Ret(op, value) == [op |-> op, outcome |-> "ok", value |-> value]
Raise(op, err) == [op |-> op, outcome |-> err, value |-> None]
Waiting(op)    == [op |-> op, outcome |-> "waiting", value |-> None]

(* ------------------------- MavlinkSocket ------------------------------ *)
\* cnx_str: "udp:<hostname>:<port>", kept as its three fields
cnx_str == <<"udp", hostname, port>>

\* getaddrinfo on the host part: a numeric address always resolves, a name
\* only when the resolver answers this call (dns)
Resolves(host, dns) == host = "0.0.0.0" \/ dns

\* mavutil.mavlink_connection(device): binds a UDP socket on host:port.  The
\* host is resolved first (socket.gaierror), then the port range is checked
\* (OverflowError).
mavlink_connection(device, dns) ==
  IF ~Resolves(device[2], dns) THEN "gaierror"
  ELSE IF device[3] < 0 \/ device[3] > 65535 THEN "OverflowError"
  ELSE "ok"

\* listen with the except handlers clearing the listening flag
listen_resets_on_failure(dns) ==
  /\ pc = "idle"
  /\ LET r == mavlink_connection(cnx_str, dns) IN
       IF r = "ok"
       THEN /\ ntransports < MaxTransports
            /\ ntransports' = ntransports + 1
            /\ mav' = [mav EXCEPT ![ntransports + 1] = NewTransport]
            /\ master' = ntransports + 1
            /\ listening' = TRUE
            /\ last' = Ret("listen", None)
       ELSE /\ last' = Raise("listen", IF r = "gaierror" THEN "InvalidAddress"
                                                         ELSE "InvalidPort")
            /\ listening' = FALSE
            /\ UNCHANGED <<master, mav, ntransports>>
  /\ UNCHANGED <<hostname, port, established, cnx_start_time, ctrl_master,
                 wireVars, envVars, pc, diagVars>>

\* listen with the listening flag set before the connection is attempted
listen_flag_first(dns) ==
  /\ pc = "idle"
  /\ listening' = TRUE
  /\ LET r == mavlink_connection(cnx_str, dns) IN
       IF r = "ok"
       THEN /\ ntransports < MaxTransports
            /\ ntransports' = ntransports + 1
            /\ mav' = [mav EXCEPT ![ntransports + 1] = NewTransport]
            /\ master' = ntransports + 1
            /\ last' = Ret("listen", None)
       ELSE /\ last' = Raise("listen", IF r = "gaierror" THEN "InvalidAddress"
                                                         ELSE "InvalidPort")
            /\ UNCHANGED <<master, mav, ntransports>>
  /\ UNCHANGED <<hostname, port, established, cnx_start_time, ctrl_master,
                 wireVars, envVars, pc, diagVars>>

\* MavlinkSocket.listen; dns: whether the resolver answers during the call
listen(dns) ==
  /\ pc = "idle"
  /\ LET r == mavlink_connection(cnx_str, dns) IN
       IF r = "ok"
       THEN /\ ntransports < MaxTransports
            /\ ntransports' = ntransports + 1
            /\ mav' = [mav EXCEPT ![ntransports + 1] = NewTransport]
            /\ master' = ntransports + 1
            /\ listening' = TRUE
            /\ last' = Ret("listen", None)
       ELSE /\ last' = Raise("listen", IF r = "gaierror" THEN "InvalidAddress"
                                                         ELSE "InvalidPort")
            /\ UNCHANGED <<master, listening, mav, ntransports>>
  /\ UNCHANGED <<hostname, port, established, cnx_start_time, ctrl_master,
                 wireVars, envVars, pc, diagVars>>

\* await_heartbeat without the listening check
await_heartbeat_unchecked ==
  /\ pc = "idle"
  /\ last' = Waiting("await_heartbeat")
  /\ pc' = "wait_heartbeat"
  /\ UNCHANGED <<sockVars, ctrl_master, libVars, wireVars, envVars, diagVars>>

\* await_heartbeat with the established flag set before wait_heartbeat()
await_heartbeat_early ==
  /\ pc = "idle"
  /\ IF ~listening
     THEN /\ last' = Raise("await_heartbeat", "NotListening")
          /\ pc' = pc
          /\ UNCHANGED established
     ELSE /\ last' = Waiting("await_heartbeat")
          /\ pc' = "wait_heartbeat"
          /\ established' = TRUE
  /\ UNCHANGED <<hostname, port, listening, cnx_start_time, master,
                 ctrl_master, libVars, wireVars, envVars, diagVars>>

\* MavlinkSocket.await_heartbeat, up to the blocking wait_heartbeat()
await_heartbeat ==
  /\ pc = "idle"
  /\ IF ~listening
     THEN /\ last' = Raise("await_heartbeat", "NotListening")
          /\ pc' = pc
     ELSE /\ last' = Waiting("await_heartbeat")
          /\ pc' = "wait_heartbeat"
  /\ UNCHANGED <<sockVars, ctrl_master, libVars, wireVars, envVars, diagVars>>

\* pymavlink, on a heartbeat received by transport t: a transport that has
\* seen no heartbeat takes the sender's ids as its target ids; one that has
\* already locked onto a vehicle keeps its ids or takes the new sender's,
\* depending on the pymavlink release.  The set of possible new values of mav.
heartbeat_received(t, sender) ==
  {[mav EXCEPT ![t] = [target_system |-> sender[1],
                       target_component |-> sender[2]]]}
  \cup (IF mav[t].target_system /= 0 THEN {mav} ELSE {})

\* MavlinkSocket.await_heartbeat, from the return of wait_heartbeat(): a
\* heartbeat from `sender` has arrived on the bound transport
await_heartbeat_return(sender) ==
  /\ pc = "wait_heartbeat"
  /\ mav' \in heartbeat_received(master, sender)
  /\ established' = TRUE
  /\ cnx_start_time' = now
  /\ pc' = "idle"
  /\ last' = Ret("await_heartbeat", None)
  /\ UNCHANGED <<hostname, port, listening, master, ctrl_master, ntransports,
                 wireVars, envVars, diagVars>>

\* MavlinkSocket.age_of_connection(ms): the outcome of a call made in the
\* current state (a pure read: the error raised, or the age returned)
age_of_connection(ms) ==
  IF cnx_start_time = None
  THEN Raise("age_of_connection", "NotEstablished")
  ELSE Ret("age_of_connection",
           IF ms THEN ((now - cnx_start_time) * 1000) \div TicksPerSecond
                 ELSE (now - cnx_start_time) \div TicksPerSecond)

\* target_system guarded by the transport's presence, not by established
target_system_unguarded ==
  IF master /= None THEN mav[master].target_system ELSE None

\* MavlinkSocket.target_system (property): the value read in the current state
target_system == IF established THEN mav[master].target_system ELSE None

\* MavlinkSocket.target_component (property)
target_component == IF established THEN mav[master].target_component ELSE None

(* ------------------------ MavlinkController --------------------------- *)
\* __init__ testing connection.listening where it should test established
MavlinkController_checks_listening ==
  /\ pc = "idle"
  /\ IF ~listening
     THEN /\ last' = Raise("MavlinkController", "ConnectionNotEstablished")
          /\ UNCHANGED ctrl_master
     ELSE IF master = None
     THEN /\ last' = Raise("MavlinkController", "AssertionError")
          /\ UNCHANGED ctrl_master
     ELSE /\ ctrl_master' = master
          /\ last' = Ret("MavlinkController", None)
  /\ UNCHANGED <<sockVars, libVars, wireVars, envVars, pc, diagVars>>

\* __init__ without the established check
MavlinkController_unchecked ==
  /\ pc = "idle"
  /\ IF master = None
     THEN /\ last' = Raise("MavlinkController", "AssertionError")
          /\ UNCHANGED ctrl_master
     ELSE /\ ctrl_master' = master
          /\ last' = Ret("MavlinkController", None)
  /\ UNCHANGED <<sockVars, libVars, wireVars, envVars, pc, diagVars>>

\* MavlinkController.__init__(connection)
MavlinkController ==
  /\ pc = "idle"
  /\ IF ~established
     THEN /\ last' = Raise("MavlinkController", "ConnectionNotEstablished")
          /\ UNCHANGED ctrl_master
     ELSE IF master = None
     THEN /\ last' = Raise("MavlinkController", "AssertionError")
          /\ UNCHANGED ctrl_master
     ELSE /\ ctrl_master' = master
          /\ last' = Ret("MavlinkController", None)
  /\ UNCHANGED <<sockVars, libVars, wireVars, envVars, pc, diagVars>>

\* a wire message: its kind, the transport it was written to, and the
\* positional arguments of the pymavlink *_send call
Msg(kind, via, fields) == [kind |-> kind, via |-> via, fields |-> fields]

\* nothing has been transmitted yet
NoMsg == Msg("NONE", None, <<>>)

\* the vehicle's armed state after a datagram reaches it: an arm/disarm long
\* command arms on param1 = 1 and disarms otherwise
vehicle_receives(msg, armed) ==
  IF msg.kind = "COMMAND_LONG" /\ msg.fields[3] = MAV_CMD_COMPONENT_ARM_DISARM
  THEN msg.fields[5] = 1
  ELSE armed

\* self._master.mav.<kind>_send(...): one datagram leaves on the controller's
\* transport; the network delivers it to the vehicle or loses it
transmit(msg) ==
  /\ nsent < MaxSent
  /\ nsent' = nsent + 1
  /\ wire' = msg
  /\ \E lost \in BOOLEAN :
       vehArmed' = IF lost THEN vehArmed ELSE vehicle_receives(msg, vehArmed)

\* _send_long_command rejecting only the lists that are too short
send_long_command_short_only(op, command_id, params, next_pc) ==
  IF Len(params) < 7
  THEN /\ last' = Raise(op, "MalformedCommand")
       /\ UNCHANGED <<wireVars, pc>>
  ELSE /\ transmit(Msg("COMMAND_LONG", ctrl_master,
                       <<target_system, target_component, command_id, 0>>
                       \o params))
       /\ pc' = next_pc
       /\ last' = IF next_pc = "idle" THEN Ret(op, None) ELSE Waiting(op)

\* MavlinkController._send_long_command(command_id, params), called by `op`;
\* the caller then continues at `next_pc`
send_long_command(op, command_id, params, next_pc) ==
  IF Len(params) /= 7
  THEN /\ last' = Raise(op, "MalformedCommand")
       /\ UNCHANGED <<wireVars, pc>>
  ELSE /\ transmit(Msg("COMMAND_LONG", ctrl_master,
                       <<target_system, target_component, command_id, 0>>
                       \o params))
       /\ pc' = next_pc
       /\ last' = IF next_pc = "idle" THEN Ret(op, None) ELSE Waiting(op)

\* arm ignoring its wait argument
arm_never_waits(wait) ==
  /\ pc = "idle" /\ ctrl_master /= None
  /\ send_long_command("arm", MAV_CMD_COMPONENT_ARM_DISARM,
                       <<1, 0, 0, 0, 0, 0, 0>>, "idle")
  /\ UNCHANGED <<sockVars, ctrl_master, libVars, envVars, diagVars>>

\* MavlinkController.arm(wait)
arm(wait) ==
  /\ pc = "idle" /\ ctrl_master /= None
  /\ send_long_command("arm", MAV_CMD_COMPONENT_ARM_DISARM,
                       <<1, 0, 0, 0, 0, 0, 0>>,
                       IF wait THEN "motors_armed_wait" ELSE "idle")
  /\ UNCHANGED <<sockVars, ctrl_master, libVars, envVars, diagVars>>

\* disarm with the parameter list of arm
disarm_sends_arm(wait) ==
  /\ pc = "idle" /\ ctrl_master /= None
  /\ send_long_command("disarm", MAV_CMD_COMPONENT_ARM_DISARM,
                       <<1, 0, 0, 0, 0, 0, 0>>,
                       IF wait THEN "motors_disarmed_wait" ELSE "idle")
  /\ UNCHANGED <<sockVars, ctrl_master, libVars, envVars, diagVars>>

\* MavlinkController.disarm(wait)
disarm(wait) ==
  /\ pc = "idle" /\ ctrl_master /= None
  /\ send_long_command("disarm", MAV_CMD_COMPONENT_ARM_DISARM,
                       <<0, 0, 0, 0, 0, 0, 0>>,
                       IF wait THEN "motors_disarmed_wait" ELSE "idle")
  /\ UNCHANGED <<sockVars, ctrl_master, libVars, envVars, diagVars>>

\* arm(wait=True), from the return of motors_armed_wait(): a heartbeat that
\* reports the motors armed has arrived on the controller's transport
motors_armed_wait_return(sender) ==
  /\ pc = "motors_armed_wait"
  /\ vehArmed
  /\ mav' \in heartbeat_received(ctrl_master, sender)
  /\ pc' = "idle"
  /\ last' = Ret("arm", None)
  /\ UNCHANGED <<sockVars, ctrl_master, ntransports, wireVars, envVars,
                 diagVars>>

\* disarm(wait=True), from the return of motors_disarmed_wait()
motors_disarmed_wait_return(sender) ==
  /\ pc = "motors_disarmed_wait"
  /\ ~vehArmed
  /\ mav' \in heartbeat_received(ctrl_master, sender)
  /\ pc' = "idle"
  /\ last' = Ret("disarm", None)
  /\ UNCHANGED <<sockVars, ctrl_master, ntransports, wireVars, envVars,
                 diagVars>>

\* set_mode sending before the mode id has been looked up
set_mode_send_first(mode) ==
  /\ pc = "idle" /\ ctrl_master /= None
  /\ transmit(Msg("SET_MODE", ctrl_master,
                  <<target_system, MAV_MODE_FLAG_CUSTOM_MODE_ENABLED,
                    IF mode \in DOMAIN ModeMapping THEN ModeMapping[mode]
                                                   ELSE None>>))
  /\ last' = IF mode \in DOMAIN ModeMapping THEN Ret("set_mode", None)
                                             ELSE Raise("set_mode", "KeyError")
  /\ UNCHANGED <<sockVars, ctrl_master, libVars, envVars, pc, diagVars>>

\* MavlinkController.set_mode(mode)
set_mode(mode) ==
  /\ pc = "idle" /\ ctrl_master /= None
  /\ IF mode \notin DOMAIN ModeMapping
     THEN /\ last' = Raise("set_mode", "KeyError")
          /\ UNCHANGED wireVars
     ELSE /\ transmit(Msg("SET_MODE", ctrl_master,
                          <<target_system, MAV_MODE_FLAG_CUSTOM_MODE_ENABLED,
                            ModeMapping[mode]>>))
          /\ last' = Ret("set_mode", None)
  /\ UNCHANGED <<sockVars, ctrl_master, libVars, envVars, pc, diagVars>>

\* the type_mask table of _set_position_target_local_ned, indexed by order
type_masks == <<3576, 3527, 3135>>

\* _set_position_target_local_ned stamping the age in seconds
set_position_target_local_ned_seconds(op, vect, order, coord_frame) ==
  LET type_mask == type_masks[order + 1]
      pos == IF order = 0 THEN vect ELSE <<0, 0, 0>>
      vel == IF order = 1 THEN vect ELSE <<0, 0, 0>>
      acc == IF order = 2 THEN vect ELSE <<0, 0, 0>>
      params == pos \o vel \o acc
      age == age_of_connection(FALSE)
  IN IF age.outcome /= "ok"
     THEN /\ last' = Raise(op, age.outcome)
          /\ UNCHANGED wireVars
     ELSE /\ transmit(Msg("SET_POSITION_TARGET_LOCAL_NED", ctrl_master,
                          <<age.value, target_system,
                            target_component, coord_frame, type_mask>>
                          \o params \o <<0, 0>>))
          /\ last' = Ret(op, None)

\* MavlinkController._set_position_target_local_ned(vect, order, coord_frame),
\* called by `op` with an order in 0..2
set_position_target_local_ned(op, vect, order, coord_frame) ==
  LET type_mask == type_masks[order + 1]
      pos == IF order = 0 THEN vect ELSE <<0, 0, 0>>
      vel == IF order = 1 THEN vect ELSE <<0, 0, 0>>
      acc == IF order = 2 THEN vect ELSE <<0, 0, 0>>
      params == pos \o vel \o acc
      age == age_of_connection(TRUE)
  IN IF age.outcome /= "ok"
     THEN /\ last' = Raise(op, age.outcome)
          /\ UNCHANGED wireVars
     ELSE /\ transmit(Msg("SET_POSITION_TARGET_LOCAL_NED", ctrl_master,
                          <<age.value, target_system,
                            target_component, coord_frame, type_mask>>
                          \o params \o <<0, 0>>))
          /\ last' = Ret(op, None)

\* MavlinkController.set_position(px, py, pz)
set_position(v) ==
  /\ pc = "idle" /\ ctrl_master /= None
  /\ set_position_target_local_ned("set_position", v, 0, 9)
  /\ UNCHANGED <<sockVars, ctrl_master, libVars, envVars, pc, diagVars>>

\* MavlinkController.set_velocity(vx, vy, vz)
set_velocity(v) ==
  /\ pc = "idle" /\ ctrl_master /= None
  /\ set_position_target_local_ned("set_velocity", v, 1, 9)
  /\ UNCHANGED <<sockVars, ctrl_master, libVars, envVars, pc, diagVars>>

\* MavlinkController.set_acceleration(ax, ay, az)
set_acceleration(v) ==
  /\ pc = "idle" /\ ctrl_master /= None
  /\ set_position_target_local_ned("set_acceleration", v, 2, 9)
  /\ UNCHANGED <<sockVars, ctrl_master, libVars, envVars, pc, diagVars>>

\* MavlinkController.set_yaw(yaw, speed, direction, relative); a[4] is the
\* bool `relative` as the integer it is on the wire
set_yaw(a) ==
  /\ pc = "idle" /\ ctrl_master /= None
  /\ send_long_command("set_yaw", MAV_CMD_CONDITION_YAW,
                       <<a[1], a[2], a[3], a[4], 0, 0, 0>>, "idle")
  /\ UNCHANGED <<sockVars, ctrl_master, libVars, envVars, diagVars>>

\* set_camera_pitch with the speed in the second parameter
set_camera_pitch_swapped(a) ==
  /\ pc = "idle" /\ ctrl_master /= None
  /\ send_long_command("set_camera_pitch", MAV_CMD_DO_GIMBAL_MANAGER_PITCHYAW,
                       <<a[1], a[2], 0, 0, 32, 0, 0>>, "idle")
  /\ UNCHANGED <<sockVars, ctrl_master, libVars, envVars, diagVars>>

\* MavlinkController.set_camera_pitch(pitch, speed)
set_camera_pitch(a) ==
  /\ pc = "idle" /\ ctrl_master /= None
  /\ send_long_command("set_camera_pitch", MAV_CMD_DO_GIMBAL_MANAGER_PITCHYAW,
                       <<a[1], 0, a[2], 0, 32, 0, 0>>, "idle")
  /\ UNCHANGED <<sockVars, ctrl_master, libVars, envVars, diagVars>>

\* MavlinkController.lights(on)
lights(on) ==
  /\ pc = "idle" /\ ctrl_master /= None
  /\ send_long_command("lights", MAV_CMD_DO_SET_SERVO,
                       <<10, IF on THEN 1500 ELSE 0, 0, 0, 0, 0, 0>>, "idle")
  /\ UNCHANGED <<sockVars, ctrl_master, libVars, envVars, diagVars>>

\* the caller calls _send_long_command itself with its own parameter list
call_send_long_command(params) ==
  /\ pc = "idle" /\ ctrl_master /= None
  /\ send_long_command("_send_long_command", MAV_CMD_DO_SET_SERVO, params,
                       "idle")
  /\ UNCHANGED <<sockVars, ctrl_master, libVars, envVars, diagVars>>

(* --------------------------- environment ------------------------------ *)
\* the wall clock advances
Tick ==
  /\ now < MaxTime
  /\ now' = now + 1
  /\ UNCHANGED <<sockVars, ctrl_master, libVars, wireVars, pc, last, diagVars>>

(* ------------------------ diagnostic scripts -------------------------- *)
\* src/diagnostic/verify.py and src/diagnostic/uw_camera_pi/setup.py: six
\* verifications, each with a module-level memo VS_*, and two installers.
\* The machine is the environment: its platform, whether ffmpeg is on the
\* PATH, what is at mediamtx_path, and the outcome of each command run.

\* class VerificationStatus(Enum)
VerificationStatus == {"NotChecked", "Verified", "Failed"}

\* the six verifications, as the keys of `ran`
Verifications == {"using_linux", "internet_connection", "python_installed",
                  "ffmpeg_installed", "aptget_updated", "mediamtx_installed"}

\* sys.platform on the machines considered
Platforms == {"linux", "win32"}

\* what one call of a verification does: the memo it leaves, the value it
\* returns, and whether it ran its underlying check
Outcome(status, value, checked) ==
  [VS |-> status, value |-> value, checked |-> checked]

\* the result a diagnostic function handed to its caller
Returned(fn, value) == [fn |-> fn, value |-> value]

\* `ran` after the calls with outcomes o (a function on some verifications)
Count(o) ==
  [v \in Verifications |->
     IF v \in DOMAIN o /\ o[v].checked THEN ran[v] + 1 ELSE ran[v]]

\* is_using_linux(): 'linux' in sys.platform
is_using_linux == platform = "linux"

\* verify_using_linux(), from memo vs
verify_using_linux_eval(vs) ==
  IF vs = "Verified" THEN Outcome(vs, TRUE, FALSE)
  ELSE IF vs = "Failed" THEN Outcome(vs, FALSE, FALSE)
  ELSE IF is_using_linux THEN Outcome("Verified", TRUE, TRUE)
  ELSE Outcome("Failed", FALSE, TRUE)

\* verify_internet_connection(), from memo vs; ping_ok: the ping command
\* exited with 0.  The branch of a failed ping returns True.
verify_internet_connection_eval(vs, ping_ok) ==
  IF vs = "Verified" THEN Outcome(vs, TRUE, FALSE)
  ELSE IF vs = "Failed" THEN Outcome(vs, FALSE, FALSE)
  ELSE IF ping_ok THEN Outcome("Verified", TRUE, TRUE)
  ELSE Outcome("Failed", TRUE, TRUE)

\* a part of a version string that int() rejects
NaN == -1

\* default of verify_python_installed's minimum_version
DefaultMinimumVersion == 7

\* outcomes of running `python3 --version`: the executable is missing (run
\* raises), or it prints stdout, given as its whitespace-separated tokens,
\* each token as its '.'-separated parts (a number, or NaN)
PythonRuns ==
  { [found |-> FALSE, stdout |-> <<>>],
    [found |-> TRUE, stdout |-> <<>>],
    [found |-> TRUE, stdout |-> << <<NaN>>, <<3>> >>],
    [found |-> TRUE, stdout |-> << <<NaN>>, <<3, NaN, 1>> >>],
    [found |-> TRUE, stdout |-> << <<NaN>>, <<3, 6, 9>> >>],
    [found |-> TRUE, stdout |-> << <<NaN>>, <<3, 12, 1>> >>] }

\* int(result.stdout.strip().split()[-1].split('.')[1]); None when one of
\* the lookups or int() raises
py3_version(stdout) ==
  IF Len(stdout) = 0 THEN None
  ELSE LET parts == stdout[Len(stdout)]
       IN IF Len(parts) < 2 THEN None
          ELSE IF parts[2] = NaN THEN None
          ELSE parts[2]

\* verify_python_installed(minimum_version), from memo vs; run: the outcome
\* of the python3 command
verify_python_installed_eval(vs, run, minimum_version) ==
  IF vs = "Verified" THEN Outcome(vs, TRUE, FALSE)
  ELSE IF vs = "Failed" THEN Outcome(vs, FALSE, FALSE)
  ELSE IF ~run.found THEN Outcome("Failed", FALSE, TRUE)
  ELSE IF py3_version(run.stdout) = None THEN Outcome("Failed", FALSE, TRUE)
  ELSE IF py3_version(run.stdout) < minimum_version
       THEN Outcome("Failed", FALSE, TRUE)
  ELSE Outcome("Verified", TRUE, TRUE)

\* is_ffmpeg_installed(): running ffmpeg does not raise
is_ffmpeg_installed(present) == present

\* verify_ffmpeg_installed(), from memo vs on a machine where ffmpeg is
\* `present`
verify_ffmpeg_installed_eval(vs, present) ==
  IF vs = "Verified" THEN Outcome(vs, TRUE, FALSE)
  ELSE IF vs = "Failed" THEN Outcome(vs, FALSE, FALSE)
  ELSE IF is_ffmpeg_installed(present) THEN Outcome("Verified", TRUE, TRUE)
  ELSE Outcome("Failed", FALSE, TRUE)

\* verify_aptget_updated(), from memo vs; update_ok: `apt-get update` ran
\* and exited with 0
verify_aptget_updated_eval(vs, update_ok) ==
  IF vs = "Verified" THEN Outcome(vs, TRUE, FALSE)
  ELSE IF vs = "Failed" THEN Outcome(vs, FALSE, FALSE)
  ELSE IF update_ok THEN Outcome("Verified", TRUE, TRUE)
  ELSE Outcome("Failed", FALSE, TRUE)

\* required_files of is_mediamtx_installed; the release archive holds them
required_files == {"LICENSE", "mediamtx", "mediamtx.yml"}

\* what can be at mediamtx_path
NoPath == [kind |-> "absent", files |-> {}]
Directory(files) == [kind |-> "dir", files |-> files]
Paths == {NoPath, [kind |-> "file", files |-> {}], Directory({}),
          Directory(required_files)}

\* is_mediamtx_installed(p): every required file is among p.glob('*')
is_mediamtx_installed(p) ==
  p.kind = "dir" /\ required_files \subseteq p.files

\* verify_mediamtx_installed(p), from memo vs
verify_mediamtx_installed_eval(vs, p) ==
  IF vs = "Verified" THEN Outcome(vs, TRUE, FALSE)
  ELSE IF vs = "Failed" THEN Outcome(vs, FALSE, FALSE)
  ELSE IF ~is_mediamtx_installed(p) THEN Outcome("Failed", FALSE, TRUE)
  ELSE Outcome("Verified", TRUE, TRUE)

\* a call of verify_using_linux()
verify_using_linux ==
  LET o == verify_using_linux_eval(VS_USING_LINUX)
  IN /\ VS_USING_LINUX' = o.VS
     /\ ran' = Count([using_linux |-> o])
     /\ ret' = Returned("verify_using_linux", o.value)
     /\ UNCHANGED <<VS_INTERNET_CONNECTION, VS_PYTHON_VERSION,
                    VS_FFMPEG_INSTALLED, VS_APTGET_UPDATED,
                    VS_MEDIAMTX_INSTALLED, platform, ffmpeg, mediamtx_path,
                    mavVars>>

\* a call of verify_internet_connection()
verify_internet_connection(ping_ok) ==
  LET o == verify_internet_connection_eval(VS_INTERNET_CONNECTION, ping_ok)
  IN /\ VS_INTERNET_CONNECTION' = o.VS
     /\ ran' = Count([internet_connection |-> o])
     /\ ret' = Returned("verify_internet_connection", o.value)
     /\ UNCHANGED <<VS_USING_LINUX, VS_PYTHON_VERSION, VS_FFMPEG_INSTALLED,
                    VS_APTGET_UPDATED, VS_MEDIAMTX_INSTALLED, platform,
                    ffmpeg, mediamtx_path, mavVars>>

\* a call of verify_python_installed()
verify_python_installed(run) ==
  LET o == verify_python_installed_eval(VS_PYTHON_VERSION, run,
                                        DefaultMinimumVersion)
  IN /\ VS_PYTHON_VERSION' = o.VS
     /\ ran' = Count([python_installed |-> o])
     /\ ret' = Returned("verify_python_installed", o.value)
     /\ UNCHANGED <<VS_USING_LINUX, VS_INTERNET_CONNECTION,
                    VS_FFMPEG_INSTALLED, VS_APTGET_UPDATED,
                    VS_MEDIAMTX_INSTALLED, platform, ffmpeg, mediamtx_path,
                    mavVars>>

\* a call of verify_ffmpeg_installed()
verify_ffmpeg_installed ==
  LET o == verify_ffmpeg_installed_eval(VS_FFMPEG_INSTALLED, ffmpeg)
  IN /\ VS_FFMPEG_INSTALLED' = o.VS
     /\ ran' = Count([ffmpeg_installed |-> o])
     /\ ret' = Returned("verify_ffmpeg_installed", o.value)
     /\ UNCHANGED <<VS_USING_LINUX, VS_INTERNET_CONNECTION, VS_PYTHON_VERSION,
                    VS_APTGET_UPDATED, VS_MEDIAMTX_INSTALLED, platform,
                    ffmpeg, mediamtx_path, mavVars>>

\* a call of verify_aptget_updated()
verify_aptget_updated(update_ok) ==
  LET o == verify_aptget_updated_eval(VS_APTGET_UPDATED, update_ok)
  IN /\ VS_APTGET_UPDATED' = o.VS
     /\ ran' = Count([aptget_updated |-> o])
     /\ ret' = Returned("verify_aptget_updated", o.value)
     /\ UNCHANGED <<VS_USING_LINUX, VS_INTERNET_CONNECTION, VS_PYTHON_VERSION,
                    VS_FFMPEG_INSTALLED, VS_MEDIAMTX_INSTALLED, platform,
                    ffmpeg, mediamtx_path, mavVars>>

\* a call of verify_mediamtx_installed(mediamtx_path)
verify_mediamtx_installed ==
  LET o == verify_mediamtx_installed_eval(VS_MEDIAMTX_INSTALLED,
                                          mediamtx_path)
  IN /\ VS_MEDIAMTX_INSTALLED' = o.VS
     /\ ran' = Count([mediamtx_installed |-> o])
     /\ ret' = Returned("verify_mediamtx_installed", o.value)
     /\ UNCHANGED <<VS_USING_LINUX, VS_INTERNET_CONNECTION, VS_PYTHON_VERSION,
                    VS_FFMPEG_INSTALLED, VS_APTGET_UPDATED, platform, ffmpeg,
                    mediamtx_path, mavVars>>

\* a call of install_ffmpeg(); ping_ok, update_ok: as above; install_ok:
\* `apt-get install ffmpeg` ran and exited with 0, which puts ffmpeg on the
\* PATH
install_ffmpeg(ping_ok, update_ok, install_ok) ==
  LET \* lines 51-52: prime the memo when ffmpeg is already there
      pre == IF is_ffmpeg_installed(ffmpeg)
             THEN verify_ffmpeg_installed_eval(VS_FFMPEG_INSTALLED, ffmpeg)
             ELSE Outcome(VS_FFMPEG_INSTALLED, FALSE, FALSE)
      lin == verify_using_linux_eval(VS_USING_LINUX)
      net == verify_internet_connection_eval(VS_INTERNET_CONNECTION, ping_ok)
      apt == verify_aptget_updated_eval(VS_APTGET_UPDATED, update_ok)
      \* line 78: the check after a successful installation
      post == verify_ffmpeg_installed_eval(pre.VS, TRUE)
      \* the calls made before the function returns
      done ==
        IF ~lin.value THEN [ffmpeg_installed |-> pre, using_linux |-> lin]
        ELSE IF ~net.value
             THEN [ffmpeg_installed |-> pre, using_linux |-> lin,
                   internet_connection |-> net]
        ELSE IF ~apt.value \/ ~install_ok
             THEN [ffmpeg_installed |-> pre, using_linux |-> lin,
                   internet_connection |-> net, aptget_updated |-> apt]
        ELSE [ffmpeg_installed |->
                Outcome(post.VS, post.value, pre.checked \/ post.checked),
              using_linux |-> lin, internet_connection |-> net,
              aptget_updated |-> apt]
      installed == lin.value /\ net.value /\ apt.value /\ install_ok
  IN /\ VS_USING_LINUX' = lin.VS
     /\ VS_INTERNET_CONNECTION' =
          IF "internet_connection" \in DOMAIN done
          THEN net.VS ELSE VS_INTERNET_CONNECTION
     /\ VS_APTGET_UPDATED' =
          IF "aptget_updated" \in DOMAIN done
          THEN apt.VS ELSE VS_APTGET_UPDATED
     /\ ffmpeg' = (ffmpeg \/ installed)
     /\ VS_FFMPEG_INSTALLED' = done.ffmpeg_installed.VS
     /\ ran' = Count(done)
     /\ ret' = Returned("install_ffmpeg", installed /\ post.value)
     /\ UNCHANGED <<VS_PYTHON_VERSION, VS_MEDIAMTX_INSTALLED, platform,
                    mediamtx_path, mavVars>>

\* a call of install_mediamtx(mediamtx_path); wget_ok: the release was
\* downloaded; tar_ok: the archive was extracted into the directory;
\* write_ok: mediamtx.yml was written
install_mediamtx(wget_ok, tar_ok, write_ok) ==
  LET \* lines 123-124: prime the memo when mediamtx is already there
      pre == IF is_mediamtx_installed(mediamtx_path)
             THEN verify_mediamtx_installed_eval(VS_MEDIAMTX_INSTALLED,
                                                 mediamtx_path)
             ELSE Outcome(VS_MEDIAMTX_INSTALLED, FALSE, FALSE)
      \* lines 126-127: mkdir when nothing is there
      made == IF mediamtx_path.kind = "absent"
              THEN Directory({}) ELSE mediamtx_path
      extracted == Directory(made.files \union required_files)
      configured == Directory(extracted.files \union {"mediamtx.yml"})
      \* line 168: the check after a successful installation
      post == verify_mediamtx_installed_eval(pre.VS, configured)
      installed == made.kind = "dir" /\ wget_ok /\ tar_ok /\ write_ok
  IN /\ mediamtx_path' =
          IF made.kind /= "dir" \/ ~wget_ok \/ ~tar_ok THEN made
          ELSE IF ~write_ok THEN extracted
          ELSE configured
     /\ VS_MEDIAMTX_INSTALLED' = IF installed THEN post.VS ELSE pre.VS
     /\ ran' = Count([mediamtx_installed |->
                        Outcome(pre.VS, FALSE,
                                pre.checked \/ (installed /\ post.checked))])
     /\ ret' = Returned("install_mediamtx", installed /\ post.value)
     /\ UNCHANGED <<VS_USING_LINUX, VS_INTERNET_CONNECTION, VS_PYTHON_VERSION,
                    VS_FFMPEG_INSTALLED, VS_APTGET_UPDATED, platform, ffmpeg,
                    mavVars>>

\* verify.py and setup.py as loaded: every memo NotChecked, nothing called
ModulesLoaded ==
  /\ VS_USING_LINUX = "NotChecked"
  /\ VS_INTERNET_CONNECTION = "NotChecked"
  /\ VS_PYTHON_VERSION = "NotChecked"
  /\ VS_FFMPEG_INSTALLED = "NotChecked"
  /\ VS_APTGET_UPDATED = "NotChecked"
  /\ VS_MEDIAMTX_INSTALLED = "NotChecked"
  /\ ran = [v \in Verifications |-> 0]
  /\ ret = Returned("import", TRUE)

(* --------------------------- specification ---------------------------- *)
\* MavlinkSocket.__init__(hostname, port); no controller exists yet
Init ==
  /\ hostname \in Hostnames
  /\ port \in Ports
  /\ listening = FALSE
  /\ established = FALSE
  /\ cnx_start_time = None
  /\ master = None
  /\ ctrl_master = None
  /\ mav = [t \in Transports |-> NewTransport]
  /\ ntransports = 0
  /\ wire = NoMsg
  /\ nsent = 0
  /\ vehArmed = FALSE
  /\ now = 0
  /\ pc = "idle"
  /\ last = Ret("MavlinkSocket", None)
  \* the command layer does not use the diagnostic scripts
  /\ ModulesLoaded
  /\ platform = "linux"
  /\ ffmpeg = FALSE
  /\ mediamtx_path = NoPath

Next ==
  \/ \E dns \in BOOLEAN : listen(dns)
  \/ await_heartbeat
  \/ \E s \in Senders : await_heartbeat_return(s)
  \/ MavlinkController
  \/ \E w \in BOOLEAN : arm(w)
  \/ \E w \in BOOLEAN : disarm(w)
  \/ \E s \in Senders : motors_armed_wait_return(s)
  \/ \E s \in Senders : motors_disarmed_wait_return(s)
  \/ \E m \in ModeNames : set_mode(m)
  \/ \E v \in Vects : set_position(v)
  \/ \E v \in Vects : set_velocity(v)
  \/ \E v \in Vects : set_acceleration(v)
  \/ \E a \in YawArgs : set_yaw(a)
  \/ \E a \in PitchArgs : set_camera_pitch(a)
  \/ \E on \in BOOLEAN : lights(on)
  \/ \E p \in ParamLists : call_send_long_command(p)
  \/ Tick

Spec == Init /\ [][Next]_vars

\* The steps of a caller that uses the connection and the two blocking
\* operations of the controller, arm and disarm.
BlockingNext ==
  \/ \E dns \in BOOLEAN : listen(dns)
  \/ await_heartbeat
  \/ \E s \in Senders : await_heartbeat_return(s)
  \/ MavlinkController
  \/ \E w \in BOOLEAN : arm(w)
  \/ \E w \in BOOLEAN : disarm(w)
  \/ \E s \in Senders : motors_armed_wait_return(s)
  \/ \E s \in Senders : motors_disarmed_wait_return(s)
  \/ Tick

\* The blocking calls sit in pymavlink's receive loop (wait_heartbeat,
\* motors_armed_wait, motors_disarmed_wait): while the awaited report can
\* arrive, the loop eventually reads it and the call returns.
FairSpec ==
  /\ Init /\ [][BlockingNext]_vars
  /\ WF_vars(\E s \in Senders : await_heartbeat_return(s))
  /\ WF_vars(\E s \in Senders : motors_armed_wait_return(s))
  /\ WF_vars(\E s \in Senders : motors_disarmed_wait_return(s))

\* the diagnostic scripts on a machine of any of the considered kinds; no
\* connection is in use
DiagInit ==
  /\ hostname = "rov.local"
  /\ port = 14550
  /\ listening = FALSE
  /\ established = FALSE
  /\ cnx_start_time = None
  /\ master = None
  /\ ctrl_master = None
  /\ mav = [t \in Transports |-> NewTransport]
  /\ ntransports = 0
  /\ wire = NoMsg
  /\ nsent = 0
  /\ vehArmed = FALSE
  /\ now = 0
  /\ pc = "idle"
  /\ last = Ret("MavlinkSocket", None)
  /\ ModulesLoaded
  /\ platform \in Platforms
  /\ ffmpeg \in BOOLEAN
  /\ mediamtx_path \in Paths

DiagNext ==
  \/ verify_using_linux
  \/ \E ping_ok \in BOOLEAN : verify_internet_connection(ping_ok)
  \/ \E run \in PythonRuns : verify_python_installed(run)
  \/ verify_ffmpeg_installed
  \/ \E update_ok \in BOOLEAN : verify_aptget_updated(update_ok)
  \/ verify_mediamtx_installed
  \/ \E ping_ok, update_ok, install_ok \in BOOLEAN :
       install_ffmpeg(ping_ok, update_ok, install_ok)
  \/ \E wget_ok, tar_ok, write_ok \in BOOLEAN :
       install_mediamtx(wget_ok, tar_ok, write_ok)

DiagSpec == DiagInit /\ [][DiagNext]_vars

(* ------------------------------ claims -------------------------------- *)
\* the connection state of the spec: NotListening, Listening, Established
State ==
  IF established THEN "Established"
  ELSE IF listening THEN "Listening" ELSE "NotListening"

\* C1: constructing a MavlinkController around a socket that is not
\* Established raises ConnectionNotEstablished, builds no controller and
\* transmits nothing; around an Established socket it succeeds and the
\* controller holds the socket's transport.
C1_ConstructionRequiresEstablished ==
  [][MavlinkController =>
       IF State = "Established"
       THEN /\ last' = Ret("MavlinkController", None)
            /\ ctrl_master' = master
            /\ ctrl_master' /= None
       ELSE /\ last' = Raise("MavlinkController", "ConnectionNotEstablished")
            /\ UNCHANGED <<ctrl_master, wire, nsent>>]_vars

\* C1 witness: a construction attempted in Listening (no heartbeat yet) has
\* failed with ConnectionNotEstablished and nothing was transmitted
C1_Witness ==
  /\ State = "Listening"
  /\ last = Raise("MavlinkController", "ConnectionNotEstablished")
  /\ ctrl_master = None
  /\ nsent = 0

\* C2: whenever a wire message has been transmitted, the connection has
\* reached Established before: listen had succeeded (a transport is bound)
\* and a heartbeat had then been received (connection start recorded).
C2_NoSendBeforeEstablished ==
  (nsent > 0 \/ wire /= NoMsg) =>
     /\ established
     /\ listening
     /\ master /= None
     /\ cnx_start_time /= None

\* C2 witness: a message has been transmitted
C2_Witness == nsent > 0 /\ wire.kind = "SET_MODE" /\ established

\* C3: target_system, target_component and cnx_start_time are defined (not
\* None) exactly when the connection is Established.
C3_DefinedIffEstablished ==
  /\ (target_system /= None) <=> (State = "Established")
  /\ (target_component /= None) <=> (State = "Established")
  /\ (cnx_start_time /= None) <=> (State = "Established")

\* C3 witness: await_heartbeat has just returned; the connection is
\* Established and the two target ids and the connection start are defined
C3_Witness ==
  /\ State = "Established"
  /\ last = Ret("await_heartbeat", None)
  /\ target_system /= None /\ target_component /= None
  /\ cnx_start_time /= None

\* C4: listening and established never go from true back to false, and
\* established is never true while listening is false.
C4_Monotonic ==
  /\ [](established => listening)
  /\ [][(listening => listening') /\ (established => established')]_vars

\* C4 witness: an Established connection on which a later listen call failed
C4_Witness ==
  /\ State = "Established"
  /\ last = Raise("listen", "InvalidAddress")

\* C5: a listen call either succeeds and leaves the connection listening on
\* a transport, or fails with InvalidAddress (host not resolved) or
\* InvalidPort (port out of range) and leaves listening, established, the
\* owned transport and the transports themselves as they were.
C5_ListenSucceedsOrLeavesState ==
  [][\A dns \in BOOLEAN : listen(dns) =>
       \/ /\ last' = Ret("listen", None)
          /\ dns /\ port \in 0..65535
          /\ listening' /\ master' /= None
       \/ /\ last' = Raise("listen", "InvalidAddress")
          /\ ~dns
          /\ UNCHANGED <<listening, established, master, libVars>>
       \/ /\ last' = Raise("listen", "InvalidPort")
          /\ dns /\ port \notin 0..65535
          /\ UNCHANGED <<listening, established, master, libVars>>]_vars

\* C5 witness: a listen call failed on a connection that was already
\* listening on a transport, and the connection still owns that transport
C5_Witness ==
  /\ last = Raise("listen", "InvalidAddress")
  /\ listening
  /\ master /= None

\* C6: a listen call on a connection that is already Listening or
\* Established reports an error and does not replace the owned transport.
C6_RelistenFailsFast ==
  [][\A dns \in BOOLEAN : (listening /\ listen(dns)) =>
       /\ last'.outcome /= "ok"
       /\ master' = master]_vars

\* C7: await_heartbeat on a NotListening connection raises NotListening
\* without entering the blocking wait, and the connection stays NotListening
\* with no target ids and no connection start.
C7_AwaitBeforeListen ==
  [][(State = "NotListening" /\ await_heartbeat) =>
       /\ last' = Raise("await_heartbeat", "NotListening")
       /\ pc' = "idle"
       /\ State' = "NotListening"
       /\ target_system' = None /\ target_component' = None
       /\ cnx_start_time' = None
       /\ UNCHANGED <<sockVars, libVars>>]_vars

\* C7 witness: await_heartbeat has failed with NotListening
C7_Witness ==
  /\ State = "NotListening"
  /\ last = Raise("await_heartbeat", "NotListening")
  /\ pc = "idle"

\* C8: the only step that makes the connection Established is the return of
\* await_heartbeat from its wait with a heartbeat received on the bound
\* transport; after that step the target ids are the sender's and the
\* connection start is the time of the return.
C8_EstablishedOnlyByHeartbeat ==
  [][(~established /\ established') =>
       /\ pc = "wait_heartbeat"
       /\ State = "Listening"
       /\ \E s \in Senders :
            /\ await_heartbeat_return(s)
            /\ target_system' = s[1]
            /\ target_component' = s[2]
       /\ cnx_start_time' = now'
       /\ last' = Ret("await_heartbeat", None)]_vars

\* C8 witness: the connection was established by a heartbeat of the vehicle
\* with system id 2 at a time after the start of the clock
C8_Witness ==
  /\ State = "Established"
  /\ last = Ret("await_heartbeat", None)
  /\ target_system = 2 /\ target_component = 1
  /\ cnx_start_time = now /\ now > 0

\* C9: while not Established, age_of_connection raises NotEstablished and the
\* target accessors give None; once Established none of them fails and the
\* target accessors give the ids captured from a heartbeat's sender.
C9_AccessorsFollowState ==
  IF State /= "Established"
  THEN /\ \A ms \in BOOLEAN :
            age_of_connection(ms) = Raise("age_of_connection", "NotEstablished")
       /\ target_system = None
       /\ target_component = None
  ELSE /\ \A ms \in BOOLEAN : age_of_connection(ms).outcome = "ok"
       /\ <<target_system, target_component>> \in Senders

\* C10: every long command on the wire carries exactly seven parameters; a
\* _send_long_command call with a list of any other length raises
\* MalformedCommand and transmits nothing, and one with seven parameters
\* transmits them as given.
C10_LongCommandHasSevenParams ==
  /\ [](wire.kind = "COMMAND_LONG" => Len(wire.fields) = 4 + 7)
  /\ [][\A p \in ParamLists : call_send_long_command(p) =>
           IF Len(p) = 7
           THEN /\ nsent' = nsent + 1
                /\ wire'.kind = "COMMAND_LONG"
                /\ SubSeq(wire'.fields, 5, Len(wire'.fields)) = p
           ELSE /\ last' = Raise("_send_long_command", "MalformedCommand")
                /\ UNCHANGED <<wire, nsent, vehArmed>>]_vars

\* C10 witness: after a long command was transmitted, a call with a list of
\* the wrong length has been rejected
C10_Witness ==
  /\ last = Raise("_send_long_command", "MalformedCommand")
  /\ wire.kind = "COMMAND_LONG"
  /\ nsent = 1

\* the long command the controller builds for `command_id` and `params` in the
\* current state: written to the controller's transport, addressed to the
\* connection's target ids, confirmation 0
LongCommand(command_id, params) ==
  Msg("COMMAND_LONG", ctrl_master,
      <<target_system, target_component, command_id, 0>> \o params)

\* C11: arm(wait=false) transmits exactly one message, the arm/disarm long
\* command with confirmation 0 and parameters [1,0,0,0,0,0,0], and returns;
\* disarm(wait=false) called next transmits exactly one more, the same
\* command with parameters [0,0,0,0,0,0,0]; both are addressed to the
\* connection's target system and component.
C11_ArmThenDisarm ==
  [][/\ arm(FALSE) =>
          /\ nsent' = nsent + 1
          /\ wire' = LongCommand(400, <<1, 0, 0, 0, 0, 0, 0>>)
          /\ pc' = "idle" /\ last' = Ret("arm", None)
     /\ (disarm(FALSE) /\ last = Ret("arm", None)) =>
          /\ wire.kind = "COMMAND_LONG"
          /\ SubSeq(wire.fields, 3, 11) = <<400, 0, 1, 0, 0, 0, 0, 0, 0>>
          /\ nsent' = nsent + 1
          /\ wire' = LongCommand(400, <<0, 0, 0, 0, 0, 0, 0>>)
          /\ pc' = "idle" /\ last' = Ret("disarm", None)]_vars

\* C11 witness: two messages were transmitted, the vehicle was armed by the
\* first and the second, the disarm command, is the one transmitted last
C11_Witness ==
  /\ nsent = 2
  /\ last = Ret("disarm", None)
  /\ wire = LongCommand(400, <<0, 0, 0, 0, 0, 0, 0>>)
  /\ vehArmed

\* C12: set_mode with a name of the mode mapping transmits exactly one
\* mode-set message with the target system, the custom-mode-enabled flag and
\* the mapped id; with a name absent from the mapping it raises UnknownMode
\* and transmits nothing.
C12_SetModeChecksMapping ==
  [][\A m \in ModeNames : set_mode(m) =>
       IF m \in DOMAIN ModeMapping
       THEN /\ nsent' = nsent + 1
            /\ wire' = Msg("SET_MODE", ctrl_master,
                           <<target_system, MAV_MODE_FLAG_CUSTOM_MODE_ENABLED,
                             ModeMapping[m]>>)
            /\ last' = Ret("set_mode", None)
       ELSE /\ last' = Raise("set_mode", "UnknownMode")
            /\ UNCHANGED <<wire, nsent>>]_vars

\* the step has transmitted exactly one local-frame setpoint for `v` at the
\* given order: frame 9, the order's type mask, v in the order's triplet and
\* zeros in the other two, stamped with the connection's age in milliseconds
SetpointSent(v, order, mask) ==
  /\ nsent' = nsent + 1
  /\ wire'.kind = "SET_POSITION_TARGET_LOCAL_NED"
  /\ wire'.fields =
       <<((now - cnx_start_time) * 1000) \div TicksPerSecond,
         target_system, target_component, 9, mask>>
       \o (IF order = 0 THEN v ELSE <<0, 0, 0>>)
       \o (IF order = 1 THEN v ELSE <<0, 0, 0>>)
       \o (IF order = 2 THEN v ELSE <<0, 0, 0>>)
       \o <<0, 0>>

\* C13: set_position, set_velocity and set_acceleration each transmit one
\* local-frame setpoint with coordinate frame 9 and type mask 3576, 3527 and
\* 3135, the inputs in the triplet of the order and zeros in the other two,
\* and the connection's age in milliseconds as timestamp.
C13_SetpointEncoding ==
  [][\A v \in Vects :
       /\ set_position(v) => SetpointSent(v, 0, 3576)
       /\ set_velocity(v) => SetpointSent(v, 1, 3527)
       /\ set_acceleration(v) => SetpointSent(v, 2, 3135)]_vars

\* C13 witness: a velocity setpoint sent half a second after establishment
C13_Witness ==
  /\ last = Ret("set_velocity", None)
  /\ wire.kind = "SET_POSITION_TARGET_LOCAL_NED"
  /\ wire.fields[1] > 0
  /\ wire.fields[5] = 3527
  /\ SubSeq(wire.fields, 6, 14) = <<0, 0, 0, 1, 2, 3, 0, 0, 0>>

\* a step of one of the controller's operations (the call, up to its return
\* or to its blocking wait)
ControllerOp ==
  \/ \E w \in BOOLEAN : arm(w) \/ disarm(w)
  \/ \E m \in ModeNames : set_mode(m)
  \/ \E v \in Vects : set_position(v) \/ set_velocity(v) \/ set_acceleration(v)
  \/ \E a \in YawArgs : set_yaw(a)
  \/ \E a \in PitchArgs : set_camera_pitch(a)
  \/ \E on \in BOOLEAN : lights(on)
  \/ \E p \in ParamLists : call_send_long_command(p)

\* C14: a controller operation that does not raise transmits exactly one
\* message, one that raises transmits none, and no other step (the waits for
\* the armed state, the socket's operations, the passing of time) transmits
\* anything: a lost message is never sent again.
C14_OneMessagePerSuccess ==
  [][/\ ControllerOp =>
          IF last'.outcome \in {"ok", "waiting"}
          THEN nsent' = nsent + 1
          ELSE UNCHANGED <<wire, nsent>>
     /\ ~ControllerOp => UNCHANGED <<wire, nsent>>]_vars

\* C14 witness: arm(wait=true) transmitted its one message, the network lost
\* it, and the caller waits without anything else having been sent
C14_Witness ==
  /\ pc = "motors_armed_wait"
  /\ ~vehArmed
  /\ nsent = 1
  /\ wire = LongCommand(MAV_CMD_COMPONENT_ARM_DISARM, <<1, 0, 0, 0, 0, 0, 0>>)

C16_CommandEncoding ==
  [][/\ \A a \in YawArgs : set_yaw(a) =>
          /\ nsent' = nsent + 1
          /\ wire' = LongCommand(MAV_CMD_CONDITION_YAW,
                                 <<a[1], a[2], a[3], a[4], 0, 0, 0>>)
     /\ \A a \in PitchArgs : set_camera_pitch(a) =>
          /\ nsent' = nsent + 1
          /\ wire' = LongCommand(MAV_CMD_DO_GIMBAL_MANAGER_PITCHYAW,
                                 <<a[1], 0, a[2], 0, 32, 0, 0>>)
     /\ \A on \in BOOLEAN : lights(on) =>
          /\ nsent' = nsent + 1
          /\ wire' = LongCommand(MAV_CMD_DO_SET_SERVO,
                                 <<10, IF on THEN 1500 ELSE 0, 0, 0, 0, 0, 0>>)]_vars

\* C16 witness: set_camera_pitch(30, 5) has sent its gimbal command
C16_Witness ==
  /\ last = Ret("set_camera_pitch", None)
  /\ wire.kind = "COMMAND_LONG"
  /\ SubSeq(wire.fields, 3, 11) = <<1000, 0, 30, 0, 5, 0, 32, 0, 0>>

\* C17: the transport of the controller is the transport the connection
\* owns, and every message is written to that transport and carries the ids
\* captured from a heartbeat received on it.
C17_ControllerFollowsConnection ==
  /\ [](ctrl_master /= None => ctrl_master = master)
  /\ [][nsent' /= nsent =>
          /\ wire'.via = master
          /\ wire'.kind = "COMMAND_LONG" =>
               /\ <<wire'.fields[1], wire'.fields[2]>> \in Senders
               /\ wire'.fields[1] = mav[wire'.via].target_system
               /\ wire'.fields[2] = mav[wire'.via].target_component]_vars

\* C18: once set, the connection-start timestamp never changes, and the age
\* of the connection never decreases.
C18_StartTimeFixed ==
  [][cnx_start_time /= None =>
       /\ cnx_start_time' = cnx_start_time
       /\ age_of_connection(TRUE)'.value >= age_of_connection(TRUE).value]_vars

\* one call of verification `called` with memo `vs` is a faithful memo step:
\* the memo is checked afterwards and the call returned True exactly when
\* the memo is Verified
FaithfulCall(called, vs) ==
  called => /\ vs' /= "NotChecked"
            /\ ret'.value = (vs' = "Verified")

\* C19: each cached verification is a faithful memo: its status leaves
\* NotChecked on the first call and never changes afterwards, its underlying
\* check runs at most once, and every call returns True exactly when the
\* status after the call is Verified.
C19_FaithfulMemo ==
  [][/\ \A i \in 1..Len(memoVars) :
          memoVars[i] /= "NotChecked" => memoVars'[i] = memoVars[i]
     /\ \A v \in Verifications : ran'[v] <= 1
     /\ FaithfulCall(verify_using_linux, VS_USING_LINUX)
     /\ FaithfulCall(\E ping_ok \in BOOLEAN :
                       verify_internet_connection(ping_ok),
                     VS_INTERNET_CONNECTION)
     /\ FaithfulCall(\E run \in PythonRuns : verify_python_installed(run),
                     VS_PYTHON_VERSION)
     /\ FaithfulCall(verify_ffmpeg_installed, VS_FFMPEG_INSTALLED)
     /\ FaithfulCall(\E update_ok \in BOOLEAN :
                       verify_aptget_updated(update_ok),
                     VS_APTGET_UPDATED)
     /\ FaithfulCall(verify_mediamtx_installed, VS_MEDIAMTX_INSTALLED)]_vars

\* C20: install_ffmpeg and install_mediamtx report the real outcome: they
\* return True whenever every step succeeds and the product is present
\* afterwards, whatever was verified earlier, and they return True only if
\* the product is present on return.
C20_InstallReportsOutcome ==
  [][/\ \A ping_ok, update_ok, install_ok \in BOOLEAN :
          install_ffmpeg(ping_ok, update_ok, install_ok) =>
            /\ ( /\ verify_using_linux_eval(VS_USING_LINUX).value
                 /\ verify_internet_connection_eval(VS_INTERNET_CONNECTION,
                                                    ping_ok).value
                 /\ verify_aptget_updated_eval(VS_APTGET_UPDATED,
                                               update_ok).value
                 /\ install_ok
                 /\ is_ffmpeg_installed(ffmpeg') ) => ret'.value
            /\ ret'.value => is_ffmpeg_installed(ffmpeg')
     /\ \A wget_ok, tar_ok, write_ok \in BOOLEAN :
          install_mediamtx(wget_ok, tar_ok, write_ok) =>
            /\ ( /\ mediamtx_path.kind /= "file"
                 /\ wget_ok /\ tar_ok /\ write_ok
                 /\ is_mediamtx_installed(mediamtx_path') ) => ret'.value
            /\ ret'.value => is_mediamtx_installed(mediamtx_path')]_vars

=============================================================================
